---- MODULE Spec2Model ----
(***************************************************************************)
(* A model of pynini_rewrite: the rewrite functions of rewrite.py and the  *)
(* RuleCascade object of rule_cascade.py.                                   *)
(*                                                                         *)
(* The transducer library (pynini) is outside the repository.  An FST is   *)
(* modelled as a "bouquet": a start state and an ordered list of weighted  *)
(* paths, each a sequence of arcs with an input and an output label.       *)
(* Labels are integers (byte values), 0 is epsilon, weights are tropical   *)
(* (naturals, combined with +, compared with <).                           *)
(***************************************************************************)
EXTENDS Integers, Sequences, FiniteSets, TLC

VARIABLES
  far,    \* RuleCascade.far: the archive reader, positioned by find()
  rules,  \* RuleCascade.rules: the stored rule sequence
  arg,    \* the arguments drawn for the function under check
  installed, \* history: the names given to the last set_rules that succeeded
  ret,    \* the last completed call: its operation, arguments and outcome
  th      \* the two threads of the unsynchronized use of one cascade

vars == <<far, rules, arg, installed, ret, th>>

(*------------------------------ bounds -----------------------------------*)
MaxRulePaths == 2   \* paths of a rule drawn for the single-rule functions
MaxWeight == 1      \* largest arc weight drawn
MaxNames == 3       \* longest name list given to set_rules
MaxLatticePaths == 3 \* paths of a raw lattice given to lattice_to_strings_and_weights
MaxStates == 3      \* largest num_states() of a lattice given to lattice_to_dfa
MaxMultiplier == 4  \* largest state_multiplier given to lattice_to_dfa
MaxShortest == 2    \* largest nshortest
MaxConcNames == 2   \* longest name list in the unsynchronized use

(*--------------------------- library constants ---------------------------*)
Eps == 0
NO_STATE_ID == -1
WeightOne == 0
WeightZero == 1000000   \* stands for the tropical +infinity
StateBase == 256
DefaultMultiplier == 4
WhiteSpace == {9, 10, 11, 12, 13, 32}

Max(a, b) == IF a >= b THEN a ELSE b
Min(a, b) == IF a <= b THEN a ELSE b

RECURSIVE SumLen(_)
SumLen(paths) ==
  IF paths = <<>> THEN 0 ELSE Len(Head(paths).arcs) + SumLen(Tail(paths))

\* An FST trimmed to its successful paths (connect): no path, no start state.
MkFst(paths) ==
  [start |-> IF paths = <<>> THEN NO_STATE_ID ELSE 0,
   paths |-> paths,
   nstates |-> IF paths = <<>> THEN 0 ELSE 1 + SumLen(paths)]

NonEps(l) == l # Eps
ILabels(arcs) == [i \in 1..Len(arcs) |-> arcs[i].il]
OLabels(arcs) == [i \in 1..Len(arcs) |-> arcs[i].ol]
\* The strings a path spells: its labels with the epsilons left out.
IString(p) == SelectSeq(ILabels(p.arcs), NonEps)
OString(p) == SelectSeq(OLabels(p.arcs), NonEps)

\* A string argument is compiled to an unweighted acceptor.
StringAcceptor(s) ==
  MkFst(<<[arcs |-> [i \in 1..Len(s) |-> [il |-> s[i], ol |-> s[i]]],
           w |-> WeightOne]>>)

Align(ins, outs) ==
  [i \in 1..Max(Len(ins), Len(outs)) |->
     [il |-> IF i <= Len(ins) THEN ins[i] ELSE Eps,
      ol |-> IF i <= Len(outs) THEN outs[i] ELSE Eps]]

RECURSIVE ComposeOne(_, _)
ComposeOne(p, qs) ==
  IF qs = <<>> THEN <<>>
  ELSE (IF OString(p) = IString(Head(qs))
          THEN <<[arcs |-> Align(IString(p), OString(Head(qs))),
                  w |-> p.w + Head(qs).w]>>
          ELSE <<>>) \o ComposeOne(p, Tail(qs))

RECURSIVE ComposePaths(_, _)
ComposePaths(ps, qs) ==
  IF ps = <<>> THEN <<>>
  ELSE ComposeOne(Head(ps), qs) \o ComposePaths(Tail(ps), qs)

\* pynini.compose(a, b, compose_filter="alt_sequence"), connected.
Compose(a, b) ==
  IF a.start = NO_STATE_ID \/ b.start = NO_STATE_ID THEN MkFst(<<>>)
  ELSE MkFst(ComposePaths(a.paths, b.paths))

\* lattice.project(project_output=True): the input labels become the output labels.
Project(l) ==
  [l EXCEPT !.paths =
     [i \in 1..Len(l.paths) |->
        [l.paths[i] EXCEPT !.arcs =
           [k \in 1..Len(l.paths[i].arcs) |->
              [il |-> l.paths[i].arcs[k].ol, ol |-> l.paths[i].arcs[k].ol]]]]]

ArcNonEps(a) == ~(a.il = Eps /\ a.ol = Eps)
\* lattice.rmepsilon(): the arcs labelled epsilon on both sides are removed.
RmEpsilon(l) ==
  LET ps == [i \in 1..Len(l.paths) |->
               [l.paths[i] EXCEPT !.arcs = SelectSeq(l.paths[i].arcs, ArcNonEps)]]
  IN [start |-> l.start, paths |-> ps,
      nstates |-> IF l.start = NO_STATE_ID THEN 0 ELSE 1 + SumLen(ps)]

(*------------------------------ outcomes ---------------------------------*)
NoErr == [msg |-> "", args |-> <<>>]
Err(m, a) == [msg |-> m, args |-> a]
Returned(v, c) == [err |-> NoErr, val |-> v, calls |-> c]
Raised(e, c) == [err |-> e, val |-> <<>>, calls |-> c]
Failed(r) == r.err # NoErr

(*------------------------------ rewrite.py -------------------------------*)
MutCleanupFirst(lattice) ==
  LET cleaned == RmEpsilon(Project(lattice))
  IN IF cleaned.start = NO_STATE_ID
       THEN Raised(Err("Composition failure", <<>>), <<"project", "rmepsilon", "start">>)
       ELSE Returned(cleaned, <<"project", "rmepsilon", "start">>)

check_nonempty_and_cleanup(lattice) ==
  IF lattice.start = NO_STATE_ID
    THEN Raised(Err("Composition failure", <<>>), <<"start">>)
    ELSE Returned(RmEpsilon(Project(lattice)), <<"start", "project", "rmepsilon">>)

\* A "string or FST" argument: a raw string is the record [str |-> labels], which
\* the library compiles to an acceptor; an FST is passed as it is.
Str(s) == [str |-> s]
AsFst(string) == IF "str" \in DOMAIN string THEN StringAcceptor(string.str)
                 ELSE string

rewrite_lattice(string, rule) ==
  LET lattice == Compose(AsFst(string), rule)
      r == check_nonempty_and_cleanup(lattice)
  IN [r EXCEPT !.calls = <<"compose">> \o r.calls]

MinOf(S) == CHOOSE m \in S : \A x \in S : m <= x

Weights(paths) == {paths[i].w : i \in 1..Len(paths)}
OStrings(paths) == {OString(paths[i]) : i \in 1..Len(paths)}
BestWeight(paths) == MinOf(Weights(paths))
MinWeightOf(s, paths) ==
  MinOf({paths[i].w : i \in {k \in 1..Len(paths) : OString(paths[k]) = s}})

\* One path per distinct string, in order of first occurrence, with the least
\* weight of the paths spelling it (the tropical sum of the merged paths).
RECURSIVE UniqueFrom(_, _)
UniqueFrom(paths, i) ==
  IF i > Len(paths) THEN <<>>
  ELSE (IF \E j \in 1..(i - 1) : OString(paths[j]) = OString(paths[i])
          THEN <<>>
          ELSE <<[arcs |-> paths[i].arcs,
                  w |-> MinWeightOf(OString(paths[i]), paths)]>>)
       \o UniqueFrom(paths, i + 1)
UniquePaths(paths) == UniqueFrom(paths, 1)

RECURSIVE KeepWithin(_, _)
KeepWithin(paths, limit) ==
  IF paths = <<>> THEN <<>>
  ELSE (IF Head(paths).w <= limit THEN <<Head(paths)>> ELSE <<>>)
       \o KeepWithin(Tail(paths), limit)

\* The paths within `weight` of the best one; WeightZero (infinity) keeps all.
Pruned(paths, weight) ==
  IF paths = <<>> THEN <<>> ELSE KeepWithin(paths, BestWeight(paths) + weight)

Prefixes(s) == {SubSeq(s, 1, k) : k \in 0..Len(s)}
\* The states of the deterministic acceptor of the paths' strings (their trie).
TrieSize(paths) == Cardinality(UNION {Prefixes(s) : s \in OStrings(paths)})

\* pynini.determinize(lattice, nstate, weight).  `run` is what the subset
\* construction does when left alone: the states it would build and, when
\* nstate stops it first, how many of the paths it has completed by then.
Determinize(lattice, nstate, weight, run) ==
  LET P == Pruned(UniquePaths(lattice.paths), weight)
  IN [start |-> lattice.start,
      paths |-> IF run.states > nstate THEN SubSeq(P, 1, Min(run.kept, Len(P))) ELSE P,
      nstates |-> Min(run.states, nstate)]

\* The run on a bouquet: the trie of its strings, nothing cut.
ExactRun(lattice, weight) ==
  LET P == Pruned(UniquePaths(lattice.paths), weight)
  IN [states |-> IF lattice.start = NO_STATE_ID THEN 0 ELSE TrieSize(P),
      kept |-> Len(P)]

MutDfaThreshold(lattice, optimal_only, state_multiplier, run) ==
  LET weight_threshold == IF optimal_only THEN WeightOne ELSE WeightZero
      state_threshold == StateBase * state_multiplier + lattice.nstates
      dfa == Determinize(lattice, state_threshold, weight_threshold, run)
  IN [lattice |-> dfa, warned |-> (dfa.nstates = state_threshold)]

lattice_to_dfa(lattice, optimal_only, state_multiplier, run) ==
  LET weight_threshold == IF optimal_only THEN WeightOne ELSE WeightZero
      state_threshold == StateBase + state_multiplier * lattice.nstates
      dfa == Determinize(lattice, state_threshold, weight_threshold, run)
  IN [lattice |-> dfa, warned |-> (dfa.nstates = state_threshold)]

\* lattice_to_dfa on a bouquet lattice, whose determinization is its trie.
ToDfa(lattice, optimal_only, state_multiplier) ==
  lattice_to_dfa(lattice, optimal_only, state_multiplier,
                 ExactRun(lattice, IF optimal_only THEN WeightOne ELSE WeightZero)).lattice

\* Stable insertion by weight: x goes after every element not heavier than it.
RECURSIVE InsertByWeight(_, _)
InsertByWeight(x, sorted) ==
  IF sorted = <<>> THEN <<x>>
  ELSE IF Head(sorted).w <= x.w
         THEN <<Head(sorted)>> \o InsertByWeight(x, Tail(sorted))
         ELSE <<x>> \o sorted

RECURSIVE SortFrom(_, _, _)
SortFrom(paths, i, acc) ==
  IF i > Len(paths) THEN acc
  ELSE SortFrom(paths, i + 1, InsertByWeight(paths[i], acc))
\* sorted(paths, key=weight): ascending and stable.
SortedByWeight(paths) == SortFrom(paths, 1, <<>>)

\* pynini.shortestpath(lattice, nshortest, unique)
ShortestPath(lattice, nshortest, unique) ==
  LET ps == SortedByWeight(IF unique THEN UniquePaths(lattice.paths) ELSE lattice.paths)
  IN MkFst(SubSeq(ps, 1, Min(nshortest, Len(ps))))

lattice_to_shortest(lattice, nshortest) == ShortestPath(lattice, nshortest, TRUE)

\* shortestpath(lattice).stringify(): the string of the one path left.
lattice_to_top_string(lattice) == OString(ShortestPath(lattice, 1, FALSE).paths[1])

MutFirstOnly(lattice) == Returned(OString(lattice.paths[1]), <<>>)

\* spaths = lattice.paths(); the iterator is at path 1, next() moves it to path 2,
\* done() is true past the last path.  The lattice has at least one path.
lattice_to_one_top_string(lattice) ==
  LET spaths == lattice.paths
      output == OString(spaths[1])
      pos == 2
  IN IF ~(pos > Len(spaths))
       THEN Raised(Err("Multiple top rewrites found",
                       <<output, OString(spaths[pos]), spaths[pos].w>>), <<>>)
       ELSE Returned(output, <<>>)

lattice_to_strings(lattice) ==
  [i \in 1..Len(lattice.paths) |-> OString(lattice.paths[i])]

\* str.split(): the maximal runs of non-whitespace characters.
RECURSIVE SplitFrom(_, _, _)
SplitFrom(s, i, cur) ==
  IF i > Len(s) THEN (IF cur = <<>> THEN <<>> ELSE <<cur>>)
  ELSE IF s[i] \in WhiteSpace
         THEN (IF cur = <<>> THEN <<>> ELSE <<cur>>) \o SplitFrom(s, i + 1, <<>>)
         ELSE SplitFrom(s, i + 1, Append(cur, s[i]))
Split(s) == SplitFrom(s, 1, <<>>)

\* A sort that is ascending but puts a path before those of its own weight.
RECURSIVE InsertBeforeEqual(_, _)
InsertBeforeEqual(x, sorted) ==
  IF sorted = <<>> THEN <<x>>
  ELSE IF Head(sorted).w < x.w
         THEN <<Head(sorted)>> \o InsertBeforeEqual(x, Tail(sorted))
         ELSE <<x>> \o sorted
RECURSIVE UnstableFrom(_, _, _)
UnstableFrom(paths, i, acc) ==
  IF i > Len(paths) THEN acc
  ELSE UnstableFrom(paths, i + 1, InsertBeforeEqual(paths[i], acc))
MutUnstable(paths) == UnstableFrom(paths, 1, <<>>)

\* sorted(lattice.paths(...), key=lambda path: float(path[2]))
sorted_arpa(paths) == SortedByWeight(paths)

lattice_to_strings_and_weights(lattice) ==
  LET r == check_nonempty_and_cleanup(lattice)
  IN IF Failed(r) THEN r
     ELSE LET sorted == sorted_arpa(r.val.paths)
          IN Returned([i \in 1..Len(sorted) |-> Split(OString(sorted[i]))], r.calls)

top_rewrite(string, rule) ==
  LET r == rewrite_lattice(string, rule)
  IN IF Failed(r) THEN r ELSE Returned(lattice_to_top_string(r.val), r.calls)

one_top_rewrite(string, rule, state_multiplier) ==
  LET r == rewrite_lattice(string, rule)
  IN IF Failed(r) THEN r
     ELSE LET t == lattice_to_one_top_string(ToDfa(r.val, TRUE, state_multiplier))
          IN [t EXCEPT !.calls = r.calls]

rewrites(string, rule, state_multiplier) ==
  LET r == rewrite_lattice(string, rule)
  IN IF Failed(r) THEN r
     ELSE Returned(lattice_to_strings(ToDfa(r.val, FALSE, state_multiplier)), r.calls)

top_rewrites(string, rule, nshortest) ==
  LET r == rewrite_lattice(string, rule)
  IN IF Failed(r) THEN r
     ELSE Returned(lattice_to_strings(lattice_to_shortest(r.val, nshortest)), r.calls)

optimal_rewrites(string, rule, state_multiplier) ==
  LET r == rewrite_lattice(string, rule)
  IN IF Failed(r) THEN r
     ELSE Returned(lattice_to_strings(ToDfa(r.val, TRUE, state_multiplier)), r.calls)

\* pynini.matches(lattice, ostring): the composition has a start state.
PyniniMatches(lattice, string) == Compose(lattice, AsFst(string)).start # NO_STATE_ID

MutMatchesSwallow(istring, expected, rule) ==
  LET r == rewrite_lattice(istring, rule)
  IN IF Failed(r) THEN Returned(FALSE, r.calls)
     ELSE Returned(PyniniMatches(r.val, expected), r.calls)

matches(istring, expected, rule) ==
  LET r == rewrite_lattice(istring, rule)
  IN IF Failed(r) THEN r ELSE Returned(PyniniMatches(r.val, expected), r.calls)

(*---------------------------- rule_cascade.py ----------------------------*)
Arc(i, o) == [il |-> i, ol |-> o]
Path(arcs, w) == [arcs |-> arcs, w |-> w]

\* The archives a cascade is constructed on: two rules each, stored with their
\* arcs in no particular order.  97 98 99 are a b c; 119..122 are w x y z.
Archives ==
  [A |-> [r1 |-> MkFst(<<Path(<<Arc(98, 121)>>, 0), Path(<<Arc(97, 120)>>, 0),
                         Path(<<Arc(97, 121)>>, 1)>>),
          r2 |-> MkFst(<<Path(<<Arc(121, 122)>>, 0), Path(<<Arc(120, 122)>>, 1),
                         Path(<<Arc(120, 119)>>, 1)>>)],
   B |-> [r1 |-> MkFst(<<Path(<<Arc(98, 97)>>, 0), Path(<<Arc(97, 97)>>, 0),
                         Path(<<Arc(97, 98)>>, 1)>>),
          r2 |-> MkFst(<<Path(<<Arc(98, 98)>>, 1), Path(<<Arc(97, 98)>>, 0),
                         Path(<<Arc(97, Eps)>>, 2), Path(<<Arc(97, 97)>>, 0)>>)]]
ArchiveIds == DOMAIN Archives
Names == {"r1", "r2", "zz"}     \* "zz" is in no archive
Inputs == {<<97>>, <<99>>}
Outputs == {<<97>>, <<122>>}

RECURSIVE SeqsUpTo(_, _)
SeqsUpTo(S, n) ==
  IF n = 0 THEN {<<>>}
  ELSE LET shorter == SeqsUpTo(S, n - 1)
       IN shorter \cup {Append(q, x) : q \in shorter, x \in S}

\* far.find(name): whether the archive holds the key; the reader is positioned on it.
find(f, name) ==
  LET found == name \in DOMAIN Archives[f.archive]
  IN [found |-> found, far |-> [f EXCEPT !.pos = IF found THEN name ELSE ""]]
\* far.get_fst(): the FST at the reader's position.
get_fst(f) == Archives[f.archive][f.pos]

FirstIl(p) == IF p.arcs = <<>> THEN Eps ELSE p.arcs[1].il
RECURSIVE InsertByIlabel(_, _)
InsertByIlabel(x, sorted) ==
  IF sorted = <<>> THEN <<x>>
  ELSE IF FirstIl(Head(sorted)) <= FirstIl(x)
         THEN <<Head(sorted)>> \o InsertByIlabel(x, Tail(sorted))
         ELSE <<x>> \o sorted
RECURSIVE ArcSortFrom(_, _, _)
ArcSortFrom(paths, i, acc) ==
  IF i > Len(paths) THEN acc
  ELSE ArcSortFrom(paths, i + 1, InsertByIlabel(paths[i], acc))
\* fst.arcsort(sort_type="ilabel"): the arcs leaving the start state by input label.
ArcSort(fst) == [fst EXCEPT !.paths = ArcSortFrom(fst.paths, 1, <<>>)]

\* The generator, run to its end by tuple(): yields so far in acc, the names it
\* has looked up in lookups.
RECURSIVE validate_and_arcsort_rules(_, _, _, _, _)
validate_and_arcsort_rules(f, names, i, acc, lookups) ==
  IF i > Len(names) THEN [err |-> NoErr, val |-> acc, lookups |-> lookups, far |-> f]
  ELSE LET fd == find(f, names[i])
       IN IF fd.found
            THEN validate_and_arcsort_rules(fd.far, names, i + 1,
                                            Append(acc, ArcSort(get_fst(fd.far))),
                                            Append(lookups, names[i]))
            ELSE [err |-> Err("Cannot find rule", <<names[i]>>), val |-> acc,
                  lookups |-> Append(lookups, names[i]), far |-> fd.far]

MutSetRulesPartial(self, names) ==
  LET g == validate_and_arcsort_rules(self.far, names, 1, <<>>, <<>>)
  IN [far |-> g.far, rules |-> g.val,
      out |-> [err |-> g.err, val |-> <<>>, calls |-> <<>>, lookups |-> g.lookups]]

MutSetRulesExtend(self, names) ==
  LET g == validate_and_arcsort_rules(self.far, names, 1, <<>>, <<>>)
  IN [far |-> g.far,
      rules |-> IF g.err # NoErr THEN self.rules ELSE self.rules \o g.val,
      out |-> [err |-> g.err, val |-> <<>>, calls |-> <<>>, lookups |-> g.lookups]]

\* self.rules = tuple(self._validate_and_arcsort_rules(rules)): the assignment
\* happens only if the generator runs to its end.
set_rules(self, names) ==
  LET g == validate_and_arcsort_rules(self.far, names, 1, <<>>, <<>>)
  IN [far |-> g.far,
      rules |-> IF g.err # NoErr THEN self.rules ELSE g.val,
      out |-> [err |-> g.err, val |-> <<>>, calls |-> <<>>, lookups |-> g.lookups]]

\* for rule in self.rules: lattice = rewrite.rewrite_lattice(lattice, rule)
RECURSIVE ThreadRules(_, _, _, _)
ThreadRules(lattice, rs, i, calls) ==
  IF i > Len(rs) THEN Returned(lattice, calls)
  ELSE LET r == rewrite_lattice(lattice, rs[i])
       IN IF Failed(r) THEN [r EXCEPT !.calls = calls \o r.calls]
          ELSE ThreadRules(r.val, rs, i + 1, calls \o r.calls)

MutRewriteNoCheck(self_rules, istring) == ThreadRules(istring, self_rules, 1, <<>>)
MutRewriteDropLast(self_rules, istring) ==
  IF self_rules = <<>> THEN Raised(Err("No rules requested", <<>>), <<>>)
  ELSE ThreadRules(istring, SubSeq(self_rules, 1, Max(1, Len(self_rules) - 1)), 1, <<>>)

RuleCascade_rewrite_lattice(self_rules, istring) ==
  IF self_rules = <<>> THEN Raised(Err("No rules requested", <<>>), <<>>)
  ELSE ThreadRules(istring, self_rules, 1, <<>>)

RuleCascade_top_rewrite(self_rules, istring) ==
  LET r == RuleCascade_rewrite_lattice(self_rules, istring)
  IN IF Failed(r) THEN r ELSE Returned(lattice_to_top_string(r.val), r.calls)

RuleCascade_one_top_rewrite(self_rules, istring, state_multiplier) ==
  LET r == RuleCascade_rewrite_lattice(self_rules, istring)
  IN IF Failed(r) THEN r
     ELSE LET t == lattice_to_one_top_string(ToDfa(r.val, TRUE, state_multiplier))
          IN [t EXCEPT !.calls = r.calls]

RuleCascade_rewrites(self_rules, istring, state_multiplier) ==
  LET r == RuleCascade_rewrite_lattice(self_rules, istring)
  IN IF Failed(r) THEN r
     ELSE Returned(lattice_to_strings(ToDfa(r.val, FALSE, state_multiplier)), r.calls)

RuleCascade_top_rewrites(self_rules, istring, nshortest) ==
  LET r == RuleCascade_rewrite_lattice(self_rules, istring)
  IN IF Failed(r) THEN r
     ELSE Returned(lattice_to_strings(lattice_to_shortest(r.val, nshortest)), r.calls)

RuleCascade_optimal_rewrites(self_rules, istring, state_multiplier) ==
  LET r == RuleCascade_rewrite_lattice(self_rules, istring)
  IN IF Failed(r) THEN r
     ELSE Returned(lattice_to_strings(ToDfa(r.val, TRUE, state_multiplier)), r.calls)

RuleCascade_matches(self_rules, istring, expected) ==
  LET r == RuleCascade_rewrite_lattice(self_rules, istring)
  IN IF Failed(r) THEN r ELSE Returned(PyniniMatches(r.val, expected), r.calls)

(*------------------- the cascade object, one caller ----------------------*)
NoCall == [op |-> "none", names |-> <<>>, istring |-> <<>>, n |-> 0,
           expected |-> <<>>, prev |-> <<>>, out |-> Returned(<<>>, <<>>)]
Idle == [pc |-> "unused"]
NoArg == [string |-> <<>>]

\* RuleCascade(far_path): the archive opened, no rule stored.
Init ==
  /\ far \in {[archive |-> a, pos |-> ""] : a \in ArchiveIds}
  /\ rules = <<>>
  /\ installed = <<>>
  /\ arg = NoArg
  /\ ret = NoCall
  /\ th = Idle

CallSetRules ==
  \E names \in SeqsUpTo(Names, MaxNames) :
    LET r == set_rules([far |-> far, rules |-> rules], names)
    IN /\ far' = r.far
       /\ rules' = r.rules
       /\ installed' = IF Failed(r.out) THEN installed ELSE names
       /\ ret' = [NoCall EXCEPT !.op = "set_rules", !.names = names,
                                !.prev = rules, !.out = r.out]
       /\ UNCHANGED <<arg, th>>

Called(op, s, n, e, out) ==
  /\ ret' = [NoCall EXCEPT !.op = op, !.istring = s, !.n = n, !.expected = e,
                           !.prev = rules, !.out = out]
  /\ UNCHANGED <<far, rules, arg, installed, th>>

CallRewriteLattice ==
  \E s \in Inputs : Called("rewrite", s, 0, <<>>, RuleCascade_rewrite_lattice(rules, Str(s)))
CallTopRewrite ==
  \E s \in Inputs : Called("top_rewrite", s, 0, <<>>, RuleCascade_top_rewrite(rules, Str(s)))
CallOneTopRewrite ==
  \E s \in Inputs : Called("one_top_rewrite", s, 0, <<>>,
                           RuleCascade_one_top_rewrite(rules, Str(s), DefaultMultiplier))
CallRewrites ==
  \E s \in Inputs : Called("rewrites", s, 0, <<>>,
                           RuleCascade_rewrites(rules, Str(s), DefaultMultiplier))
CallTopRewrites ==
  \E s \in Inputs, n \in 1..MaxShortest :
    Called("top_rewrites", s, n, <<>>, RuleCascade_top_rewrites(rules, Str(s), n))
CallOptimalRewrites ==
  \E s \in Inputs : Called("optimal_rewrites", s, 0, <<>>,
                           RuleCascade_optimal_rewrites(rules, Str(s), DefaultMultiplier))
CallMatches ==
  \E s \in Inputs, e \in Outputs :
    Called("matches", s, 0, e, RuleCascade_matches(rules, Str(s), Str(e)))

Next ==
  \/ CallSetRules
  \/ CallRewriteLattice
  \/ CallTopRewrite
  \/ CallOneTopRewrite
  \/ CallRewrites
  \/ CallTopRewrites
  \/ CallOptimalRewrites
  \/ CallMatches

Spec == Init /\ [][Next]_vars

(*------------------- the single-rule functions of rewrite.py -------------*)
\* The paths a drawn rule is made of: a or b to x or y at each weight, a deleted,
\* and the two-letter ab rewritten to x.
RulePathPool ==
  {Path(<<Arc(i, o)>>, w) : i \in {97, 98}, o \in {120, 121}, w \in 0..MaxWeight}
  \cup {Path(<<Arc(97, Eps)>>, 0), Path(<<Arc(97, 120), Arc(98, Eps)>>, 0)}
RuleUniverse == {MkFst(ps) : ps \in SeqsUpTo(RulePathPool, MaxRulePaths) \ {<<>>}}
RewriteInputs == {<<97>>, <<98>>, <<97, 98>>, <<99>>}
RewriteOutputs == {<<120>>, <<121>>, <<>>}

NoRewriteCall == [op |-> "none", n |-> 0, expected |-> <<>>, out |-> Returned(<<>>, <<>>)]

InitRewrite ==
  /\ far = [archive |-> "A", pos |-> ""]
  /\ rules = <<>>
  /\ installed = <<>>
  /\ arg \in {[string |-> s, rule |-> r] : s \in RewriteInputs, r \in RuleUniverse}
  /\ ret = NoRewriteCall
  /\ th = Idle

Applied(op, n, e, out) ==
  /\ ret' = [op |-> op, n |-> n, expected |-> e, out |-> out]
  /\ UNCHANGED <<far, rules, arg, installed, th>>

ApplyRewriteLattice ==
  Applied("rewrite_lattice", 0, <<>>, rewrite_lattice(Str(arg.string), arg.rule))
ApplyTopRewrite ==
  Applied("top_rewrite", 0, <<>>, top_rewrite(Str(arg.string), arg.rule))
ApplyOneTopRewrite ==
  Applied("one_top_rewrite", 0, <<>>,
          one_top_rewrite(Str(arg.string), arg.rule, DefaultMultiplier))
ApplyRewrites ==
  Applied("rewrites", 0, <<>>, rewrites(Str(arg.string), arg.rule, DefaultMultiplier))
ApplyTopRewrites ==
  \E n \in 1..MaxShortest :
    Applied("top_rewrites", n, <<>>, top_rewrites(Str(arg.string), arg.rule, n))
ApplyOptimalRewrites ==
  Applied("optimal_rewrites", 0, <<>>,
          optimal_rewrites(Str(arg.string), arg.rule, DefaultMultiplier))
ApplyMatches ==
  \E e \in RewriteOutputs :
    Applied("matches", 0, e, matches(Str(arg.string), Str(e), arg.rule))

NextRewrite ==
  \/ ApplyRewriteLattice
  \/ ApplyTopRewrite
  \/ ApplyOneTopRewrite
  \/ ApplyRewrites
  \/ ApplyTopRewrites
  \/ ApplyOptimalRewrites
  \/ ApplyMatches

SpecRewrite == InitRewrite /\ [][NextRewrite]_vars

(*----------------------------- lattice_to_dfa ----------------------------*)
\* Lattices of any shape: their paths, and a state count the paths do not fix.
DfaPaths ==
  {<<Path(<<Arc(120, 120)>>, 0), Path(<<Arc(121, 121)>>, 0)>>,
   <<Path(<<Arc(120, 120)>>, 0), Path(<<Arc(121, 121)>>, 1), Path(<<Arc(120, 120)>>, 1)>>}
DfaLattices ==
  {[start |-> 0, paths |-> ps, nstates |-> k] : ps \in DfaPaths, k \in 2..MaxStates}
\* What determinization can need: up to one state more than the largest threshold.
Runs(l) ==
  {[states |-> k, kept |-> j] :
     k \in 1..(StateBase + MaxMultiplier * MaxStates + 1), j \in 0..Len(l.paths)}

InitDfa ==
  /\ far = [archive |-> "A", pos |-> ""]
  /\ rules = <<>>
  /\ installed = <<>>
  /\ arg \in {[lattice |-> l, optimal_only |-> o, state_multiplier |-> m, run |-> run] :
                l \in DfaLattices, o \in BOOLEAN, m \in 0..MaxMultiplier,
                run \in UNION {Runs(l) : l \in DfaLattices}}
  /\ arg.run \in Runs(arg.lattice)
  /\ ret = [op |-> "none"]
  /\ th = Idle

ApplyLatticeToDfa ==
  /\ ret' = [op |-> "lattice_to_dfa",
             out |-> lattice_to_dfa(arg.lattice, arg.optimal_only,
                                    arg.state_multiplier, arg.run)]
  /\ UNCHANGED <<far, rules, arg, installed, th>>

NextDfa == ApplyLatticeToDfa

SpecDfa == InitDfa /\ [][NextDfa]_vars

(*---------------------- lattice_to_strings_and_weights -------------------*)
\* Paths of a raw lattice: input and output labels differ, outputs hold epsilons
\* and white space (32 is the blank, 9 the tab).
RawLabels ==
  {<<Arc(97, 120), Arc(97, 32), Arc(97, 121)>>,
   <<Arc(97, 120), Arc(98, 121)>>,
   <<Arc(97, Eps), Arc(98, 121)>>,
   <<Arc(97, 32), Arc(98, 120), Arc(99, 9)>>}
RawPathPool == {Path(a, w) : a \in RawLabels, w \in 0..MaxWeight}
RawLattices == {MkFst(ps) : ps \in SeqsUpTo(RawPathPool, MaxLatticePaths)}

InitWeights ==
  /\ far = [archive |-> "A", pos |-> ""]
  /\ rules = <<>>
  /\ installed = <<>>
  /\ arg \in {[lattice |-> l] : l \in RawLattices}
  /\ ret = [op |-> "none"]
  /\ th = Idle

ApplyStringsAndWeights ==
  /\ ret' = [op |-> "lattice_to_strings_and_weights",
             out |-> lattice_to_strings_and_weights(arg.lattice)]
  /\ UNCHANGED <<far, rules, arg, installed, th>>

NextWeights == ApplyStringsAndWeights

SpecWeights == InitWeights /\ [][NextWeights]_vars

(*---------------- one cascade, set_rules and a rewrite unsynchronized ----*)
\* The rules a successful set_rules(names) stores.
StoredFor(archive, names) ==
  [i \in 1..Len(names) |-> ArcSort(Archives[archive][names[i]])]
ExistingNames == {"r1", "r2"}

\* What self.rules holds while the generator is still being consumed: the
\* generator only yields, the attribute is assigned after tuple() returns.
MutStorePartial(self_rules, acc) == acc
RulesDuringValidation(self_rules, acc) == self_rules

InitConc ==
  /\ far \in {[archive |-> a, pos |-> ""] : a \in ArchiveIds}
  /\ installed \in SeqsUpTo(ExistingNames, MaxConcNames)
  /\ rules = StoredFor(far.archive, installed)
  /\ arg \in {[names |-> ns, istring |-> s] :
                ns \in SeqsUpTo(Names, MaxConcNames), s \in Inputs}
  /\ ret = [op |-> "none"]
  /\ th = [old |-> rules,
           set |-> [pc |-> "validate", i |-> 1, acc |-> <<>>, err |-> NoErr],
           rw |-> [pc |-> "check", first |-> <<>>, it |-> <<>>, i |-> 0,
                   lattice |-> Str(arg.istring), applied |-> <<>>,
                   out |-> Returned(<<>>, <<>>)]]

\* One turn of the generator: far.find(rule), then yield or raise.
SetterLookup ==
  /\ th.set.pc = "validate"
  /\ th.set.i <= Len(arg.names)
  /\ LET fd == find(far, arg.names[th.set.i])
         acc == IF fd.found THEN Append(th.set.acc, ArcSort(get_fst(fd.far)))
                ELSE th.set.acc
     IN /\ far' = fd.far
        /\ rules' = RulesDuringValidation(rules, acc)
        /\ th' = [th EXCEPT !.set =
                    IF fd.found
                      THEN [@ EXCEPT !.i = @ + 1, !.acc = acc]
                      ELSE [@ EXCEPT !.pc = "raised",
                                     !.err = Err("Cannot find rule", <<arg.names[th.set.i]>>)]]
  /\ UNCHANGED <<arg, installed, ret>>

\* self.rules = tuple(...): one store of the finished tuple.
SetterPublish ==
  /\ th.set.pc = "validate"
  /\ th.set.i > Len(arg.names)
  /\ rules' = th.set.acc
  /\ installed' = arg.names
  /\ th' = [th EXCEPT !.set.pc = "done"]
  /\ UNCHANGED <<far, arg, ret>>

\* if not self.rules: raise Error("No rules requested")   (first read)
RwCheck ==
  /\ th.rw.pc = "check"
  /\ th' = [th EXCEPT !.rw =
              IF rules = <<>>
                THEN [@ EXCEPT !.pc = "done", !.first = rules,
                               !.out = Raised(Err("No rules requested", <<>>), <<>>)]
                ELSE [@ EXCEPT !.pc = "iter", !.first = rules]]
  /\ UNCHANGED <<far, rules, arg, installed, ret>>

\* lattice = istring; for rule in self.rules:   (second read, the iterator's tuple)
RwIter ==
  /\ th.rw.pc = "iter"
  /\ th' = [th EXCEPT !.rw = [@ EXCEPT !.pc = "loop", !.it = rules, !.i = 1]]
  /\ UNCHANGED <<far, rules, arg, installed, ret>>

\* lattice = rewrite.rewrite_lattice(lattice, rule)
RwStep ==
  /\ th.rw.pc = "loop"
  /\ th.rw.i <= Len(th.rw.it)
  /\ LET r == rewrite_lattice(th.rw.lattice, th.rw.it[th.rw.i])
     IN th' = [th EXCEPT !.rw =
                 IF Failed(r)
                   THEN [@ EXCEPT !.pc = "done", !.out = r]
                   ELSE [@ EXCEPT !.i = @ + 1, !.lattice = r.val,
                                  !.applied = Append(@, th.rw.it[th.rw.i])]]
  /\ UNCHANGED <<far, rules, arg, installed, ret>>

\* return lattice
RwReturn ==
  /\ th.rw.pc = "loop"
  /\ th.rw.i > Len(th.rw.it)
  /\ th' = [th EXCEPT !.rw = [@ EXCEPT !.pc = "done",
                                       !.out = Returned(th.rw.lattice, <<>>)]]
  /\ UNCHANGED <<far, rules, arg, installed, ret>>

NextConc ==
  \/ SetterLookup
  \/ SetterPublish
  \/ RwCheck
  \/ RwIter
  \/ RwStep
  \/ RwReturn

SpecConc == InitConc /\ [][NextConc]_vars

(*=========================== the claims ==================================*)
\* The rule as a relation: the outputs it gives a string, and their weights.
InDomain(string, rule) == \E i \in 1..Len(rule.paths) : IString(rule.paths[i]) = string
OutputsOf(string, rule) ==
  {OString(rule.paths[i]) : i \in {k \in 1..Len(rule.paths) : IString(rule.paths[k]) = string}}
EpsilonFreeAcceptor(l) ==
  \A i \in 1..Len(l.paths) : \A k \in 1..Len(l.paths[i].arcs) :
    /\ l.paths[i].arcs[k].il = l.paths[i].arcs[k].ol
    /\ l.paths[i].arcs[k].il # Eps
Range(q) == {q[i] : i \in 1..Len(q)}

\* C1 (as stated): rewrite_lattice succeeds on every string of the rule's input
\* language and otherwise fails with a composition failure that names the
\* offending input; the start state is checked before projection.
C1_Original ==
  ret.op = "rewrite_lattice" =>
    /\ InDomain(arg.string, arg.rule) => ~Failed(ret.out)
    /\ ~InDomain(arg.string, arg.rule) =>
         /\ ret.out.err.msg = "Composition failure"
         /\ arg.string \in Range(ret.out.err.args)
         /\ ret.out.calls = <<"compose", "start">>

\* C1 (amended): rewrite_lattice succeeds exactly on the strings of the rule's
\* input language, returning an epsilon-free acceptor of the rule's outputs for
\* the string; otherwise it raises Error("Composition failure"), which carries
\* no input, after the start-state check and before any projection or epsilon
\* removal.
C1_BuildLattice ==
  ret.op = "rewrite_lattice" =>
    /\ InDomain(arg.string, arg.rule) =>
         /\ ~Failed(ret.out)
         /\ ret.out.calls = <<"compose", "start", "project", "rmepsilon">>
         /\ EpsilonFreeAcceptor(ret.out.val)
         /\ OStrings(ret.out.val.paths) = OutputsOf(arg.string, arg.rule)
    /\ ~InDomain(arg.string, arg.rule) =>
         /\ ret.out.err = Err("Composition failure", <<>>)
         /\ ret.out.calls = <<"compose", "start">>

C1_Witness ==
  /\ ret.op = "rewrite_lattice"
  /\ ~InDomain(arg.string, arg.rule)
  /\ ret.out.err.msg = "Composition failure"

\* The strings of a lattice at its best weight.
OptimalClass(l) ==
  {OString(l.paths[i]) : i \in {k \in 1..Len(l.paths) : l.paths[k].w = BestWeight(l.paths)}}

\* C2: on the optimal-pruned deterministic lattice, lattice_to_one_top_string
\* returns the string when the optimal class holds exactly one, and with two or
\* more raises "Multiple top rewrites found" carrying the first candidate, a
\* second, different optimal string and its weight, returning none of them.
C2_TieDetection ==
  (ret.op = "one_top_rewrite" /\ InDomain(arg.string, arg.rule)) =>
    LET l == rewrite_lattice(Str(arg.string), arg.rule).val
        dfa == ToDfa(l, TRUE, DefaultMultiplier)
        class == OptimalClass(l)
    IN /\ OStrings(dfa.paths) = class
       /\ Len(dfa.paths) = Cardinality(class)
       /\ Cardinality(class) = 1 =>
            /\ ~Failed(ret.out)
            /\ ret.out.val \in class
       /\ Cardinality(class) >= 2 =>
            /\ ret.out.err.msg = "Multiple top rewrites found"
            /\ Len(ret.out.err.args) = 3
            /\ ret.out.err.args[1] \in class
            /\ ret.out.err.args[2] \in class
            /\ ret.out.err.args[1] # ret.out.err.args[2]
            /\ ret.out.err.args[1] = OString(dfa.paths[1])
            /\ ret.out.err.args[2] = OString(dfa.paths[2])
            /\ ret.out.err.args[3] = BestWeight(l.paths)
            /\ ret.out.val = <<>>

C2_Witness ==
  /\ ret.op = "one_top_rewrite"
  /\ ret.out.err.msg = "Multiple top rewrites found"
  /\ ret.out.err.args[3] = 1

\* C6 (as stated): matches never raises and returns whether the expected string
\* is among the rule's outputs for the input.
C6_Original ==
  ret.op = "matches" =>
    /\ ~Failed(ret.out)
    /\ ret.out.val = (ret.expected \in OutputsOf(arg.string, arg.rule))

\* C6 (amended): when the input has at least one rewrite under the rule, matches
\* returns whether the expected string is one of them, whatever the weights, and
\* returns false for a string that is not; when the input has no rewrite at all,
\* it raises Error("Composition failure") from the lattice construction.
C6_Containment ==
  ret.op = "matches" =>
    /\ InDomain(arg.string, arg.rule) =>
         /\ ~Failed(ret.out)
         /\ ret.out.val = (ret.expected \in OutputsOf(arg.string, arg.rule))
    /\ ~InDomain(arg.string, arg.rule) =>
         ret.out.err = Err("Composition failure", <<>>)

C6_Witness ==
  /\ ret.op = "matches"
  /\ InDomain(arg.string, arg.rule)
  /\ ~Failed(ret.out)
  /\ ret.out.val = FALSE
  /\ Cardinality(Weights(arg.rule.paths)) = 2

\* The place a path takes in an ascending, stable order by weight.
Rank(paths, i) ==
  1 + Cardinality({j \in 1..Len(paths) :
                     \/ paths[j].w < paths[i].w
                     \/ (paths[j].w = paths[i].w /\ j < i)})

\* C7 (as stated): each entry of the result is the triple of a path's input
\* labels, its output tokens and its weight, in ascending stable weight order.
C7_Original ==
  (ret.op = "lattice_to_strings_and_weights" /\ ~Failed(ret.out)) =>
    \A i \in 1..Len(arg.lattice.paths) :
      LET entry == ret.out.val[Rank(arg.lattice.paths, i)]
      IN /\ Len(entry) = 3
         /\ Len(entry[2]) = Len(Split(OString(arg.lattice.paths[i])))

\* C7 (amended): lattice_to_strings_and_weights checks the start state, projects
\* and removes epsilons first (raising Error("Composition failure") when there is
\* no start state), then returns one entry per path, the entry being only the
\* tuple of the path's output string split on white space, in ascending order of
\* weight with equal weights kept in enumeration order.
C7_SortedTokens ==
  ret.op = "lattice_to_strings_and_weights" =>
    /\ arg.lattice.start = NO_STATE_ID =>
         /\ ret.out.err = Err("Composition failure", <<>>)
         /\ ret.out.calls = <<"start">>
    /\ arg.lattice.start # NO_STATE_ID =>
         /\ ~Failed(ret.out)
         /\ ret.out.calls = <<"start", "project", "rmepsilon">>
         /\ Len(ret.out.val) = Len(arg.lattice.paths)
         /\ \A i \in 1..Len(arg.lattice.paths) :
              ret.out.val[Rank(arg.lattice.paths, i)]
                = Split(OString(arg.lattice.paths[i]))

C7_Witness ==
  /\ ret.op = "lattice_to_strings_and_weights"
  /\ ~Failed(ret.out)
  /\ Len(arg.lattice.paths) = 3
  /\ arg.lattice.paths[1].w = 1
  /\ arg.lattice.paths[2].w = 1
  /\ arg.lattice.paths[3].w = 0
  /\ ret.out.val[2] # ret.out.val[3]
  /\ Len(ret.out.val[2]) = 2

\* C9: lattice_to_dfa determinizes under the threshold 256 + state_multiplier *
\* num_states, so the result has at most that many states; it warns exactly
\* when the result has exactly that many, and returns the result either way.
C9_StateCap ==
  ret.op = "lattice_to_dfa" =>
    LET cap == 256 + arg.state_multiplier * arg.lattice.nstates
    IN /\ ret.out.lattice.nstates <= cap
       /\ ret.out.lattice.nstates = Min(arg.run.states, cap)
       /\ ret.out.warned <=> (ret.out.lattice.nstates = cap)
       /\ ret.out.lattice.start = arg.lattice.start
       /\ OStrings(ret.out.lattice.paths) \subseteq OStrings(arg.lattice.paths)

C9_Witness ==
  /\ ret.op = "lattice_to_dfa"
  /\ arg.state_multiplier = 4
  /\ arg.run.states > 256 + 4 * arg.lattice.nstates
  /\ ret.out.warned
  /\ ret.out.lattice.nstates = 256 + 4 * arg.lattice.nstates

AllExist(names) == \A i \in 1..Len(names) : names[i] \in ExistingNames
IsPrefix(p, q) == Len(p) <= Len(q) /\ p = SubSeq(q, 1, Len(p))

\* C10 (as stated): an interleaved rewrite applies entirely the old or entirely
\* the new sequence, or fails with "No rules requested" if the sequence it
\* observes is empty.
C10_Original ==
  th.rw.pc = "done" =>
    \/ th.rw.out.err.msg = "No rules requested"
    \/ /\ th.rw.it # <<>>
       /\ \/ th.rw.it = th.old
          \/ AllExist(arg.names) /\ th.rw.it = StoredFor(far.archive, arg.names)

\* C10 (amended): the rewrite never applies a mixture or a partly built
\* sequence: the rules it iterates are entirely the sequence stored before
\* set_rules or entirely the one a successful set_rules installs, applied in
\* order up to the first composition failure.  But it reads self.rules twice:
\* "No rules requested" is decided by the first read alone, so when set_rules
\* installs an empty sequence between the two reads, the rewrite applies no rule
\* and returns its input without raising.
C10_NoMixture ==
  /\ th.set.pc # "done" => rules = th.old
  /\ th.rw.pc = "done" =>
       /\ (th.rw.out.err.msg = "No rules requested") <=> (th.rw.first = <<>>)
       /\ th.rw.first \in {th.old, rules}
       /\ th.rw.first = <<>> => th.rw.applied = <<>>
       /\ th.rw.first # <<>> =>
            /\ \/ th.rw.it = th.old
               \/ AllExist(arg.names) /\ th.rw.it = StoredFor(far.archive, arg.names)
            /\ IsPrefix(th.rw.applied, th.rw.it)
            /\ ~Failed(th.rw.out) => th.rw.applied = th.rw.it
            /\ Failed(th.rw.out) =>
                 /\ th.rw.out.err.msg = "Composition failure"
                 /\ Len(th.rw.applied) < Len(th.rw.it)
            /\ (th.rw.it = <<>> /\ ~Failed(th.rw.out)) =>
                 th.rw.out.val = Str(arg.istring)

C10_Witness ==
  /\ th.rw.pc = "done"
  /\ th.set.pc = "done"
  /\ th.rw.first = th.old
  /\ th.rw.it = StoredFor(far.archive, arg.names)
  /\ th.rw.it # th.old
  /\ Len(th.rw.it) = 2
  /\ th.rw.applied = th.rw.it

Family == {"rewrite", "top_rewrite", "one_top_rewrite", "rewrites", "top_rewrites",
           "optimal_rewrites", "matches"}
FarKeys == DOMAIN Archives[far.archive]

\* The single-rule function of rewrite.py that ends a manual threading.
LastStage(op, lattice, rule, n, e) ==
  CASE op = "rewrite" -> rewrite_lattice(lattice, rule)
    [] op = "top_rewrite" -> top_rewrite(lattice, rule)
    [] op = "one_top_rewrite" -> one_top_rewrite(lattice, rule, DefaultMultiplier)
    [] op = "rewrites" -> rewrites(lattice, rule, DefaultMultiplier)
    [] op = "top_rewrites" -> top_rewrites(lattice, rule, n)
    [] op = "optimal_rewrites" -> optimal_rewrites(lattice, rule, DefaultMultiplier)
    [] op = "matches" -> matches(lattice, Str(e), rule)

\* Three single-rule rewrites by hand, each lattice the next one's input.
Manual(op, s, n, e, r1, r2, r3) ==
  LET l1 == rewrite_lattice(Str(s), r1)
  IN IF Failed(l1) THEN l1
     ELSE LET l2 == rewrite_lattice(l1.val, r2)
          IN IF Failed(l2) THEN l2 ELSE LastStage(op, l2.val, r3, n, e)

\* A lattice as a weighted language: its strings, each with its least weight.
Language(l) == {<<x, MinWeightOf(x, l.paths)>> : x \in OStrings(l.paths)}
\* What of an outcome the rule's language fixes, whatever the order of its arcs.
View(op, out) ==
  IF Failed(out) THEN <<"raised", out.err.msg>>
  ELSE CASE op = "rewrite" -> <<"lattice", Language(out.val)>>
         [] op \in {"rewrites", "optimal_rewrites"} -> <<"strings", Range(out.val)>>
         [] op \in {"one_top_rewrite", "matches"} -> <<"value", out.val>>
         [] OTHER -> <<"returned", Len(out.val)>>

\* C3: with three rules set, every operation of the cascade gives what three
\* single-rule rewrites threaded by hand give: the same result and error with
\* the rules as the cascade stores them, and with the rules as the archive
\* holds them the same error, lattice language, string set and value.
C3_Composability ==
  (ret.op \in Family /\ Len(installed) = 3 /\ Len(rules) = 3) =>
    LET stored == Manual(ret.op, ret.istring, ret.n, ret.expected,
                         rules[1], rules[2], rules[3])
        raw == Manual(ret.op, ret.istring, ret.n, ret.expected,
                      Archives[far.archive][installed[1]],
                      Archives[far.archive][installed[2]],
                      Archives[far.archive][installed[3]])
    IN /\ ret.out.err = stored.err
       /\ ret.out.val = stored.val
       /\ View(ret.op, ret.out) = View(ret.op, raw)

C3_Witness ==
  /\ ret.op = "optimal_rewrites"
  /\ installed = <<"r1", "r2", "r1">>
  /\ Len(rules) = 3
  /\ ~Failed(ret.out)
  /\ Len(ret.out.val) = 1

\* C4: set_rules with a name the archive lacks raises "Cannot find rule" naming
\* the first such name, looks up no name after it, and leaves the stored
\* sequence as it was before the call.
C4_FailFast ==
  (ret.op = "set_rules" /\ \E i \in 1..Len(ret.names) : ret.names[i] \notin FarKeys) =>
    LET k == CHOOSE i \in 1..Len(ret.names) :
               /\ ret.names[i] \notin FarKeys
               /\ \A j \in 1..(i - 1) : ret.names[j] \in FarKeys
    IN /\ ret.out.err = Err("Cannot find rule", <<ret.names[k]>>)
       /\ ret.out.lookups = SubSeq(ret.names, 1, k)
       /\ rules = ret.prev

C4_Witness ==
  /\ ret.op = "set_rules"
  /\ ret.names = <<"r1", "zz", "r2">>
  /\ ret.prev # <<>>
  /\ rules = ret.prev
  /\ Failed(ret.out)

\* C5: every rewrite operation of the cascade raises "No rules requested",
\* before any composition, exactly when the stored sequence is empty.
C5_NoRules ==
  ret.op \in Family =>
    /\ (ret.prev = <<>>) <=> (ret.out.err.msg = "No rules requested")
    /\ ret.prev = <<>> => ret.out.calls = <<>>
    /\ ret.prev # <<>> => ret.out.calls[1] = "compose"

C5_Witness ==
  /\ ret.op = "matches"
  /\ ret.prev = <<>>
  /\ installed = <<>>
  /\ ret.out.err = Err("No rules requested", <<>>)

IsArcSorted(fst) ==
  \A i \in 1..(Len(fst.paths) - 1) : FirstIl(fst.paths[i]) <= FirstIl(fst.paths[i + 1])
Count(x, q) == Cardinality({i \in 1..Len(q) : q[i] = x})
SameArcs(f, g) ==
  /\ Len(f.paths) = Len(g.paths)
  /\ \A x \in Range(f.paths) \cup Range(g.paths) : Count(x, f.paths) = Count(x, g.paths)

\* C8: the stored sequence is always the rules named by the last successful
\* set_rules, arc-sorted, in the order given, and empty before any succeeds;
\* nothing of an earlier sequence remains and no rewrite call changes it.
C8_StoredRules ==
  /\ Len(rules) = Len(installed)
  /\ \A i \in 1..Len(rules) :
       /\ IsArcSorted(rules[i])
       /\ SameArcs(rules[i], Archives[far.archive][installed[i]])
  /\ ret.op \in Family => rules = ret.prev
  /\ (ret.op = "set_rules" /\ ~Failed(ret.out)) => installed = ret.names

C8_Witness ==
  /\ ret.op = "set_rules"
  /\ ~Failed(ret.out)
  /\ Len(ret.prev) = 3
  /\ ret.names = <<"r2">>
  /\ Len(rules) = 1
  /\ rules[1] # Archives[far.archive]["r2"]

====
